---- MODULE Spec2Model ----
(***************************************************************************)
(* Model of src/main.py: the daily / year-to-date KPI run.                  *)
(*                                                                         *)
(* A DataFrame is a sequence of records (row order is the frame's order).   *)
(* Dates are day numbers; a year has DaysPerYear days.  A float is the      *)
(* exact fraction [num, den] in lowest terms, and NaN, the value a left     *)
(* merge leaves where nothing matched, is 0/0.                              *)
(***************************************************************************)
EXTENDS Integers, Sequences, FiniteSets, TLC

\* ---------------------------------------------------------------- bounds
MaxLines == 2
MaxToday == 3
MaxRuns == 2
DaysPerYear == 2

\* ------------------------------------------------------------ the tables
None == "None"

\* float('nan') in a numeric column
NaN == [num |-> 0, den |-> 0]

\* float('nan') in a column of strings (store names are sequences of characters)
NaNObject == <<"nan">>

\* an integer column becomes float64 when a left merge adds missing values
ToFloat(n) == [num |-> n, den |-> 1]

\* store_id values in lexicographic order (the order groupby sorts keys in)
IdOrder == <<"BOARD", "S1", "S2", "SX">>

\* stores.csv: SX is a store_id that no row of the table carries
stores_df ==
    << [store_id |-> "S1", store_name |-> <<"A", " ", "x">>],
       [store_id |-> "S2", store_name |-> <<"B", " ", "y">>] >>

\* products.xlsx: PX is a product_id that no row of the table carries
products_df == << [product_id |-> "P1", product_name |-> "Alpha"] >>

\* the rows sales.xlsx may hold
SaleLines ==
    [sales_code : {1, 2}, date : {0, 1}, store_id : {"S1", "S2", "SX"},
     product_id : {"P1", "PX"}, quantity : {1, 2}, unit_price : {10}]

\* the rows sales.xlsx holds in the runs that exercise the control flow
RunSaleLines ==
    [sales_code : {1}, date : {0, 1}, store_id : {"S1", "S2", "SX"},
     product_id : {"P1"}, quantity : {1}, unit_price : {10}]

\* a row of emails.xlsx
RecipientRow(id) == [store_id |-> id, manager |-> <<"Mgr", id>>, email |-> <<"mail", id>>]

BoundedSeq(S, n) == UNION {[1..k -> S] : k \in 0..n}

\* the duplicate-free sequences over S
Arrangements(S) ==
    {s \in BoundedSeq(S, Cardinality(S)) : \A a, b \in DOMAIN s : a # b => s[a] # s[b]}

\* --------------------------------------------------------- frame helpers
RECURSIVE Flatten(_)
Flatten(ss) == IF ss = <<>> THEN <<>> ELSE Head(ss) \o Flatten(Tail(ss))

\* the rows of df whose store_id is k
RowsOf(df, k) == SelectSeq(df, LAMBDA r : r.store_id = k)

\* groupby('store_id'): the distinct keys, sorted
GroupKeys(df) == SelectSeq(IdOrder, LAMBDA k : \E j \in DOMAIN df : df[j].store_id = k)

\* Series.nunique()
NUnique(df, col) == Cardinality({df[j][col] : j \in DOMAIN df})

RECURSIVE SumRevenue(_)
SumRevenue(df) == IF df = <<>> THEN 0 ELSE Head(df).revenue + SumRevenue(Tail(df))

RECURSIVE GCD(_, _)
GCD(a, b) == IF b = 0 THEN a ELSE GCD(b, a % b)

\* revenue / distinct_sales
Divide(n, d) == LET g == GCD(n, d) IN [num |-> n \div g, den |-> d \div g]

\* ------------------------------------------------------- period filter
yesterday_date(t) == t - 1

YearOf(d) == d \div DaysPerYear

DayOfYear(d) == d % DaysPerYear

DailySales(sales, t) == SelectSeq(sales, LAMBDA r : r.date = yesterday_date(t))

YearlySales(sales, t) ==
    SelectSeq(sales, LAMBDA r : YearOf(r.date) = YearOf(yesterday_date(t))
                                 /\ r.date <= yesterday_date(t))

\* ------------------------------------------------------- KPI aggregator
\* df.merge(products_df, on='product_id')[[sales_code, date, store_id, quantity, unit_price]]
MergeProducts(df) ==
    Flatten([j \in DOMAIN df |->
        LET m == SelectSeq(products_df, LAMBDA p : p.product_id = df[j].product_id)
        IN  [x \in DOMAIN m |->
                [sales_code |-> df[j].sales_code, date |-> df[j].date,
                 store_id |-> df[j].store_id, quantity |-> df[j].quantity,
                 unit_price |-> df[j].unit_price]]])

\* variant: the line's revenue taken as a sum
LineRevenue_added(quantity, unit_price) == quantity + unit_price

LineRevenue(quantity, unit_price) == quantity * unit_price

WithRevenue(df) ==
    [j \in DOMAIN df |->
        [sales_code |-> df[j].sales_code, date |-> df[j].date,
         store_id |-> df[j].store_id, quantity |-> df[j].quantity,
         unit_price |-> df[j].unit_price,
         revenue |-> LineRevenue(df[j].quantity, df[j].unit_price)]]

RevenueDf(period_sales) ==
    LET merged == WithRevenue(MergeProducts(period_sales))
        keys == GroupKeys(merged)
    IN  [j \in DOMAIN keys |->
            [store_id |-> keys[j], revenue |-> SumRevenue(RowsOf(merged, keys[j]))]]

DistinctProductsDf(period_sales) ==
    LET keys == GroupKeys(period_sales)
    IN  [j \in DOMAIN keys |->
            [store_id |-> keys[j],
             distinct_products |-> NUnique(RowsOf(period_sales, keys[j]), "product_id")]]

\* variant: the sales counted by rows (count() for nunique())
DistinctSalesDf_count(period_sales) ==
    LET keys == GroupKeys(period_sales)
    IN  [j \in DOMAIN keys |->
            [store_id |-> keys[j], distinct_sales |-> Len(RowsOf(period_sales, keys[j]))]]

DistinctSalesDf(period_sales) ==
    LET keys == GroupKeys(period_sales)
    IN  [j \in DOMAIN keys |->
            [store_id |-> keys[j],
             distinct_sales |-> NUnique(RowsOf(period_sales, keys[j]), "sales_code")]]

AvgTicketDf(revenue_df, distinct_sales_df) ==
    Flatten([j \in DOMAIN revenue_df |->
        LET m == RowsOf(distinct_sales_df, revenue_df[j].store_id)
        IN  [x \in DOMAIN m |->
                [store_id |-> revenue_df[j].store_id, revenue |-> revenue_df[j].revenue,
                 distinct_sales |-> m[x].distinct_sales,
                 avg_ticket |-> Divide(revenue_df[j].revenue, m[x].distinct_sales)]]])

KpisDf(revenue_df, distinct_products_df, avg_ticket_df) ==
    Flatten([j \in DOMAIN revenue_df |->
        LET dp == RowsOf(distinct_products_df, revenue_df[j].store_id)
            at == RowsOf(avg_ticket_df, revenue_df[j].store_id)
        IN  Flatten([x \in DOMAIN dp |->
                [y \in DOMAIN at |->
                    [store_id |-> revenue_df[j].store_id, revenue |-> revenue_df[j].revenue,
                     distinct_products |-> dp[x].distinct_products,
                     avg_ticket |-> at[y].avg_ticket]]])])

PeriodKpis(period_sales) ==
    LET revenue_df == RevenueDf(period_sales)
    IN  KpisDf(revenue_df, DistinctProductsDf(period_sales),
               AvgTicketDf(revenue_df, DistinctSalesDf(period_sales)))

\* variant: a right merge with the missing daily values filled with zero
AllKpisDf_filled(daily, yearly) ==
    Flatten([j \in DOMAIN yearly |->
        LET m == RowsOf(daily, yearly[j].store_id)
            d == IF m = <<>>
                 THEN << [revenue |-> 0, distinct_products |-> 0,
                          avg_ticket |-> [num |-> 0, den |-> 1]] >>
                 ELSE m
        IN  [x \in DOMAIN d |->
                [store_id |-> yearly[j].store_id,
                 revenue_daily |-> d[x].revenue,
                 distinct_products_daily |-> d[x].distinct_products,
                 avg_ticket_daily |-> d[x].avg_ticket,
                 revenue_yearly |-> yearly[j].revenue,
                 distinct_products_yearly |-> yearly[j].distinct_products,
                 avg_ticket_yearly |-> yearly[j].avg_ticket]]])

\* daily_kpis_df.merge(yearly_kpis_df, on='store_id', suffixes=('_daily', '_yearly'))
AllKpisDf(daily, yearly) ==
    Flatten([j \in DOMAIN daily |->
        LET m == RowsOf(yearly, daily[j].store_id)
        IN  [x \in DOMAIN m |->
                [store_id |-> daily[j].store_id,
                 revenue_daily |-> daily[j].revenue,
                 distinct_products_daily |-> daily[j].distinct_products,
                 avg_ticket_daily |-> daily[j].avg_ticket,
                 revenue_yearly |-> m[x].revenue,
                 distinct_products_yearly |-> m[x].distinct_products,
                 avg_ticket_yearly |-> m[x].avg_ticket]]])

\* emails_df.merge(stores_df, how='left').merge(all_kpis_df, how='left')
EmailsWithKpisDf(emails, all_kpis) ==
    Flatten([j \in DOMAIN emails |->
        LET st == RowsOf(stores_df, emails[j].store_id)
            names == IF st = <<>> THEN <<NaNObject>> ELSE [x \in DOMAIN st |-> st[x].store_name]
            kp == RowsOf(all_kpis, emails[j].store_id)
            kpis == IF kp = <<>>
                    THEN << [store_id |-> emails[j].store_id,
                             revenue_daily |-> NaN, distinct_products_daily |-> NaN,
                             avg_ticket_daily |-> NaN, revenue_yearly |-> NaN,
                             distinct_products_yearly |-> NaN, avg_ticket_yearly |-> NaN] >>
                    ELSE [y \in DOMAIN kp |->
                            [store_id |-> kp[y].store_id,
                             revenue_daily |-> ToFloat(kp[y].revenue_daily),
                             distinct_products_daily |-> ToFloat(kp[y].distinct_products_daily),
                             avg_ticket_daily |-> kp[y].avg_ticket_daily,
                             revenue_yearly |-> ToFloat(kp[y].revenue_yearly),
                             distinct_products_yearly |-> ToFloat(kp[y].distinct_products_yearly),
                             avg_ticket_yearly |-> kp[y].avg_ticket_yearly]]
        IN  Flatten([x \in DOMAIN names |->
                [y \in DOMAIN kpis |->
                    [store_id |-> emails[j].store_id, manager |-> emails[j].manager,
                     email |-> emails[j].email, store_name |-> names[x],
                     revenue_daily |-> kpis[y].revenue_daily,
                     distinct_products_daily |-> kpis[y].distinct_products_daily,
                     avg_ticket_daily |-> kpis[y].avg_ticket_daily,
                     revenue_yearly |-> kpis[y].revenue_yearly,
                     distinct_products_yearly |-> kpis[y].distinct_products_yearly,
                     avg_ticket_yearly |-> kpis[y].avg_ticket_yearly]]])])

\* --------------------------------------------------------------- report
DAILY_TARGETS == [revenue |-> 1000, distinct_products |-> 4, avg_ticket |-> 500]

YEARLY_TARGETS == [revenue |-> 1650000, distinct_products |-> 120, avg_ticket |-> 500]

\* getattr(row, f'{name}_{period}')
Getattr(row, name, period) ==
    CASE name = "revenue" /\ period = "daily" -> row.revenue_daily
      [] name = "revenue" /\ period = "yearly" -> row.revenue_yearly
      [] name = "distinct_products" /\ period = "daily" -> row.distinct_products_daily
      [] name = "distinct_products" /\ period = "yearly" -> row.distinct_products_yearly
      [] name = "avg_ticket" /\ period = "daily" -> row.avg_ticket_daily
      [] name = "avg_ticket" /\ period = "yearly" -> row.avg_ticket_yearly

construct_kpi_list(row, targets, period) ==
    << [name |-> "Revenue", value |-> Getattr(row, "revenue", period),
        target |-> targets.revenue, type |-> "currency"],
       [name |-> "Distinct Products", value |-> Getattr(row, "distinct_products", period),
        target |-> targets.distinct_products, type |-> "integer"],
       [name |-> "Avg Ticket", value |-> Getattr(row, "avg_ticket", period),
        target |-> targets.avg_ticket, type |-> "currency"] >>

\* int(kpi['value']) raises ValueError on NaN; the currency format prints it
FormatRaises(kpis) == \E j \in DOMAIN kpis : kpis[j].type = "integer" /\ kpis[j].value = NaN

\* kpi['value'] >= kpi['target'] (any comparison with NaN is False)
MeetsTarget(value, target) == value # NaN /\ value.num >= target * value.den

\* the table's rows; the digits of the formatted numbers are not modelled
format_kpi_table(kpis, title) ==
    [title |-> title,
     rows |-> [j \in DOMAIN kpis |->
                 [name |-> kpis[j].name, value |-> kpis[j].value, target |-> kpis[j].target,
                  color |-> IF MeetsTarget(kpis[j].value, kpis[j].target)
                            THEN "green" ELSE "red"]]]

\* ------------------------------------------------------ names and dates
Digits == <<"0", "1", "2", "3", "4", "5", "6", "7", "8", "9">>

\* strftime with the given separator: the year, then the day within the year
Strftime(d, sep) == <<Digits[YearOf(d) + 1], sep, Digits[DayOfYear(d) + 1]>>

Casefold(c) == CASE c = "A" -> "a" [] c = "B" -> "b" [] OTHER -> c

\* store_name.casefold().replace(' ', '_')
StoreNameSafe(store_name) ==
    [j \in DOMAIN store_name |->
        IF Casefold(store_name[j]) = " " THEN "_" ELSE Casefold(store_name[j])]

StoreFilePath(store_name) ==
    [dir |-> <<"store_backup_files">> \o StoreNameSafe(store_name),
     file |-> StoreNameSafe(store_name) \o <<"_sales.xlsx">>]

\* variant: the daily file named after the year alone
DailyExportPath_yearOnly(t) ==
    [dir |-> <<"store_backup_files", "board_of_directors">>,
     file |-> <<"daily_ranking_", Digits[YearOf(yesterday_date(t)) + 1], ".xlsx">>]

DailyExportPath(t) ==
    [dir |-> <<"store_backup_files", "board_of_directors">>,
     file |-> <<"daily_ranking_">> \o Strftime(yesterday_date(t), "_") \o <<".xlsx">>]

YearlyExportPath(t) ==
    [dir |-> <<"store_backup_files", "board_of_directors">>,
     file |-> <<"yearly_ranking_", Digits[YearOf(yesterday_date(t)) + 1], ".xlsx">>]

\* ---------------------------------------------------------------- export
\* the store's year-to-date detail, joined to products and stores
StoreExportRows(yearly_sales, store_id) ==
    LET filtered == RowsOf(yearly_sales, store_id)
    IN  Flatten([j \in DOMAIN filtered |->
            LET ps == SelectSeq(products_df,
                                LAMBDA p : p.product_id = filtered[j].product_id)
                st == RowsOf(stores_df, store_id)
            IN  Flatten([x \in DOMAIN ps |->
                    [y \in DOMAIN st |->
                        [sales_code |-> filtered[j].sales_code,
                         date |-> Strftime(filtered[j].date, "/"),
                         product_name |-> ps[x].product_name,
                         store_name |-> st[y].store_name,
                         quantity |-> filtered[j].quantity,
                         unit_price |-> filtered[j].unit_price]]])])

\* df.merge(stores_df, on='store_id')
MergeStores(revenue_df) ==
    Flatten([j \in DOMAIN revenue_df |->
        LET st == RowsOf(stores_df, revenue_df[j].store_id)
        IN  [x \in DOMAIN st |->
                [store_id |-> revenue_df[j].store_id, revenue |-> revenue_df[j].revenue,
                 store_name |-> st[x].store_name]]])

\* --------------------------------------------------------------- ranking
Injections(n) == {f \in [1..n -> 1..n] : \A a, b \in 1..n : a # b => f[a] # f[b]}

\* sort_values(by='revenue', ascending=False) with the default kind
\* ('quicksort'), which does not promise the order of equal keys: every
\* descending arrangement of the rows is a possible result
SortValuesDesc(df) ==
    {s \in {[j \in DOMAIN df |-> df[f[j]]] : f \in Injections(Len(df))} :
        \A j \in 1..(Len(s) - 1) : s[j].revenue >= s[j + 1].revenue}

\* variant: an empty frame gives an empty ranking with placeholder stores
get_ranking_info_guarded(df) ==
    IF df = <<>>
    THEN {[raised |-> FALSE, sorted_df |-> <<>>,
           best_store_name |-> NaNObject, best_store_value |-> 0,
           worst_store_name |-> NaNObject, worst_store_value |-> 0]}
    ELSE {[raised |-> FALSE,
           sorted_df |-> [j \in DOMAIN s |->
                            [store_id |-> s[j].store_id, store_name |-> s[j].store_name,
                             revenue |-> s[j].revenue]],
           best_store_name |-> s[1].store_name, best_store_value |-> s[1].revenue,
           worst_store_name |-> s[Len(s)].store_name,
           worst_store_value |-> s[Len(s)].revenue] : s \in SortValuesDesc(df)}

\* the possible returns of get_ranking_info; iloc[0] raises on an empty frame
get_ranking_info(df) ==
    IF df = <<>>
    THEN {[raised |-> TRUE]}
    ELSE {[raised |-> FALSE,
           sorted_df |-> [j \in DOMAIN s |->
                            [store_id |-> s[j].store_id, store_name |-> s[j].store_name,
                             revenue |-> s[j].revenue]],
           best_store_name |-> s[1].store_name, best_store_value |-> s[1].revenue,
           worst_store_name |-> s[Len(s)].store_name,
           worst_store_value |-> s[Len(s)].revenue] : s \in SortValuesDesc(df)}

\* ----------------------------------------------------------------- state
VARIABLES
    sales_df,             \* sales.xlsx
    emails_df,            \* emails.xlsx
    today,                \* date.today()
    run,                  \* the number of this invocation of the script
    EMAIL_FROM,           \* os.getenv('EMAIL_FROM') as read by this run
    pc,                   \* "idle", "main", "loop", "done", "aborted"
    err,                  \* the exception that ended the run
    i,                    \* the row of emails_with_kpis_df the loop is at
    daily_revenue_df,
    yearly_revenue_df,
    daily_kpis_df,
    yearly_kpis_df,
    all_kpis_df,
    emails_with_kpis_df,
    ranking_daily,        \* what get_ranking_info returned, once it has
    ranking_yearly,
    fs,                   \* the spreadsheets on disk: path -> content
    effects               \* the files written and emails sent, in order

frames == <<daily_revenue_df, yearly_revenue_df, daily_kpis_df, yearly_kpis_df,
            all_kpis_df, emails_with_kpis_df>>

inputs == <<sales_df, emails_df, today, run>>

vars == <<sales_df, emails_df, today, run, EMAIL_FROM, pc, err, i, daily_revenue_df,
          yearly_revenue_df, daily_kpis_df, yearly_kpis_df, all_kpis_df,
          emails_with_kpis_df, ranking_daily, ranking_yearly, fs, effects>>

\* the values the environment may hold for EMAIL_FROM
EnvValues == {None, "", "sender@corp"}

\* variant: only the empty string is refused
Falsy_empty(v) == v = ""

\* `not EMAIL_FROM`
Falsy(v) == v = None \/ v = ""

NoPath == [dir |-> <<>>, file |-> <<>>]

\* a file written: by which run, reporting which day, which of the three exports
WriteEvent(r, t, kind, store_id, path) ==
    [run |-> r, day |-> yesterday_date(t), op |-> "to_excel", kind |-> kind,
     store_id |-> store_id, path |-> path, to |-> <<>>, attachments |-> <<>>,
     body |-> <<>>]

\* an email handed to the mail client
SendEvent(r, t, store_id, to, attachments, body) ==
    [run |-> r, day |-> yesterday_date(t), op |-> "send", kind |-> "email",
     store_id |-> store_id, path |-> NoPath, to |-> to, attachments |-> attachments,
     body |-> <<body>>]

\* DataFrame.to_excel(path): the file now holds these rows
ToExcel(files, path, r, t, rows) ==
    (path :> [run |-> r, day |-> yesterday_date(t), rows |-> rows]) @@ files

\* send_email attaches the paths that exist
Attachable(files, paths) == SelectSeq(paths, LAMBDA q : q \in DOMAIN files)

Fresh ==
    /\ pc = "idle" /\ err = None /\ i = 0 /\ EMAIL_FROM = None
    /\ daily_revenue_df = <<>> /\ yearly_revenue_df = <<>>
    /\ daily_kpis_df = <<>> /\ yearly_kpis_df = <<>>
    /\ all_kpis_df = <<>> /\ emails_with_kpis_df = <<>>
    /\ ranking_daily = <<>> /\ ranking_yearly = <<>>

\* one run over any recipients table and a small sales table
Init ==
    /\ sales_df \in BoundedSeq(RunSaleLines, MaxLines)
    /\ emails_df \in {[j \in DOMAIN a |-> RecipientRow(a[j])] :
                        a \in Arrangements({"S1", "S2", "SX", "BOARD"})}
    /\ today \in 1..MaxToday
    /\ run = 1
    /\ fs = << >> /\ effects = <<>>
    /\ Fresh

\* main() over any sales table and an empty recipients table, run on the
\* first two days of a year and on the first day of the next
InitKPI ==
    /\ sales_df \in BoundedSeq(SaleLines, MaxLines)
    /\ emails_df = <<>>
    /\ today \in {1, 2, DaysPerYear + 1}
    /\ run = 1
    /\ fs = << >> /\ effects = <<>>
    /\ pc = "main" /\ err = None /\ i = 0 /\ EMAIL_FROM = "sender@corp"
    /\ daily_revenue_df = <<>> /\ yearly_revenue_df = <<>>
    /\ daily_kpis_df = <<>> /\ yearly_kpis_df = <<>>
    /\ all_kpis_df = <<>> /\ emails_with_kpis_df = <<>>
    /\ ranking_daily = <<>> /\ ranking_yearly = <<>>

\* a sequence of runs over the days, one store and the board as recipients
InitRuns ==
    /\ sales_df \in BoundedSeq(RunSaleLines, MaxLines)
    /\ emails_df = <<RecipientRow("S1"), RecipientRow("BOARD")>>
    /\ today = 1
    /\ run = 1
    /\ fs = << >> /\ effects = <<>>
    /\ Fresh

Abort(e) == pc' = "aborted" /\ err' = e

\* lines 14-33: the module's top level reads the environment
ModuleLoad ==
    /\ pc = "idle"
    /\ \E v \in EnvValues :
        /\ EMAIL_FROM' = v
        /\ IF Falsy(v) THEN Abort("ValueError: EMAIL_FROM") ELSE pc' = "main" /\ err' = None
    /\ UNCHANGED <<inputs, i, frames, ranking_daily, ranking_yearly, fs, effects>>

\* lines 188-267: load, filter, aggregate, merge (addresses are opaque: the
\* rewriting of the recipients' addresses at 259-266 is left out)
Aggregate ==
    /\ pc = "main"
    /\ LET daily == PeriodKpis(DailySales(sales_df, today))
           yearly == PeriodKpis(YearlySales(sales_df, today))
           all == AllKpisDf(daily, yearly)
       IN  /\ daily_revenue_df' = RevenueDf(DailySales(sales_df, today))
           /\ yearly_revenue_df' = RevenueDf(YearlySales(sales_df, today))
           /\ daily_kpis_df' = daily
           /\ yearly_kpis_df' = yearly
           /\ all_kpis_df' = all
           /\ emails_with_kpis_df' = EmailsWithKpisDf(emails_df, all)
    /\ pc' = "loop" /\ i' = 1
    /\ UNCHANGED <<inputs, EMAIL_FROM, err, ranking_daily, ranking_yearly, fs, effects>>

\* variant: the email goes out before the file is written
StoreRowEffects_sendFirst(r, t, row, path, files, body) ==
    << SendEvent(r, t, row.store_id, row.email, Attachable(files, <<path>>), body),
       WriteEvent(r, t, "store", row.store_id, path) >>

\* lines 310-329: the store's file is written, then its email is sent
StoreRowEffects(r, t, row, path, files, body) ==
    << WriteEvent(r, t, "store", row.store_id, path),
       SendEvent(r, t, row.store_id, row.email, Attachable(files, <<path>>), body) >>

\* lines 269-331: one iteration of the loop over emails_with_kpis_df
StoreRow ==
    /\ pc = "loop" /\ i <= Len(emails_with_kpis_df)
    /\ LET row == emails_with_kpis_df[i]
           daily_kpis == construct_kpi_list(row, DAILY_TARGETS, "daily")
           yearly_kpis == construct_kpi_list(row, YEARLY_TARGETS, "yearly")
       IN  IF row.store_id = "BOARD"
           THEN /\ i' = i + 1
                /\ UNCHANGED <<pc, err, fs, effects>>
           ELSE IF FormatRaises(daily_kpis) \/ FormatRaises(yearly_kpis)
           THEN /\ Abort("ValueError: cannot convert float NaN to integer")
                /\ UNCHANGED <<i, fs, effects>>
           ELSE IF row.store_name = NaNObject
           THEN /\ Abort("AttributeError: casefold")
                /\ UNCHANGED <<i, fs, effects>>
           ELSE LET path == StoreFilePath(row.store_name)
                    files == ToExcel(fs, path, run, today,
                                     StoreExportRows(YearlySales(sales_df, today),
                                                     row.store_id))
                    body == [daily_table |-> format_kpi_table(daily_kpis, "Daily Values"),
                             yearly_table |-> format_kpi_table(yearly_kpis, "Yearly Values")]
                IN  /\ fs' = files
                    /\ effects' = effects \o StoreRowEffects(run, today, row, path, files, body)
                    /\ i' = i + 1
                    /\ UNCHANGED <<pc, err>>
    /\ UNCHANGED <<inputs, EMAIL_FROM, frames, ranking_daily, ranking_yearly>>

\* lines 333-387: the rankings, their two files and the board's email
Board ==
    /\ pc = "loop" /\ i > Len(emails_with_kpis_df)
    /\ \E rd \in get_ranking_info(MergeStores(daily_revenue_df)),
          ry \in get_ranking_info(MergeStores(yearly_revenue_df)) :
        IF rd.raised
        THEN /\ Abort("IndexError: ranking")
             /\ UNCHANGED <<ranking_daily, ranking_yearly, fs, effects>>
        ELSE IF ry.raised
        THEN /\ Abort("IndexError: ranking")
             /\ ranking_daily' = <<rd>>
             /\ UNCHANGED <<ranking_yearly, fs, effects>>
        ELSE LET daily_export_path == DailyExportPath(today)
                 yearly_export_path == YearlyExportPath(today)
                 files == ToExcel(ToExcel(fs, daily_export_path, run, today, rd.sorted_df),
                                  yearly_export_path, run, today, ry.sorted_df)
                 written == << WriteEvent(run, today, "daily", "BOARD", daily_export_path),
                               WriteEvent(run, today, "yearly", "BOARD",
                                          yearly_export_path) >>
                 board == RowsOf(emails_df, "BOARD")
                 body == [best_daily_store |-> rd.best_store_name,
                          best_daily_store_revenue |-> rd.best_store_value,
                          worst_daily_store |-> rd.worst_store_name,
                          worst_daily_store_revenue |-> rd.worst_store_value,
                          best_yearly_store |-> ry.best_store_name,
                          best_yearly_store_revenue |-> ry.best_store_value,
                          worst_yearly_store |-> ry.worst_store_name,
                          worst_yearly_store_revenue |-> ry.worst_store_value]
             IN  /\ ranking_daily' = <<rd>>
                 /\ ranking_yearly' = <<ry>>
                 /\ fs' = files
                 /\ IF board = <<>>
                    THEN /\ Abort("IndexError: BOARD")
                         /\ effects' = effects \o written
                    ELSE /\ pc' = "done" /\ err' = None
                         /\ effects' = effects \o written \o
                              << SendEvent(run, today, "BOARD", board[1].email,
                                           Attachable(files, <<daily_export_path,
                                                               yearly_export_path>>),
                                           body) >>
    /\ UNCHANGED <<inputs, EMAIL_FROM, i, frames>>

\* the script is started again, the same day or a later one
NewRun ==
    /\ pc \in {"done", "aborted"}
    /\ run < MaxRuns
    /\ \E t \in today..MaxToday : today' = t
    /\ run' = run + 1
    /\ pc' = "idle" /\ err' = None /\ i' = 0 /\ EMAIL_FROM' = None
    /\ daily_revenue_df' = <<>> /\ yearly_revenue_df' = <<>>
    /\ daily_kpis_df' = <<>> /\ yearly_kpis_df' = <<>>
    /\ all_kpis_df' = <<>> /\ emails_with_kpis_df' = <<>>
    /\ ranking_daily' = <<>> /\ ranking_yearly' = <<>>
    /\ UNCHANGED <<sales_df, emails_df, fs, effects>>

Next == ModuleLoad \/ Aggregate \/ StoreRow \/ Board

NextKPI == Aggregate \/ Board

NextRuns == ModuleLoad \/ Aggregate \/ StoreRow \/ Board \/ NewRun

Spec == Init /\ [][Next]_vars

SpecKPI == InitKPI /\ [][NextKPI]_vars

SpecRuns == InitRuns /\ [][NextRuns]_vars

\* ======================================================================
\* The properties.  Their vocabulary is defined from the input tables, not
\* from the operators above.
\* ======================================================================
Periods == {"daily", "yearly"}

AllStoreIds == {IdOrder[j] : j \in DOMAIN IdOrder}

\* main() has computed the KPI frames of this run
Aggregated == pc \in {"loop", "done"} \/ (pc = "aborted" /\ err # "ValueError: EMAIL_FROM")

InWindow(line, period) ==
    IF period = "daily"
    THEN line.date = today - 1
    ELSE /\ line.date \div DaysPerYear = (today - 1) \div DaysPerYear
         /\ line.date <= today - 1

KnownProduct(id) == \E j \in DOMAIN products_df : products_df[j].product_id = id

KnownStore(id) == \E j \in DOMAIN stores_df : stores_df[j].store_id = id

\* the rows of sales.xlsx of store s in the period's window
LinesOf(s, period) ==
    {j \in DOMAIN sales_df : sales_df[j].store_id = s /\ InWindow(sales_df[j], period)}

\* those of them whose product is in products.xlsx
JoinedLinesOf(s, period) ==
    {j \in LinesOf(s, period) : KnownProduct(sales_df[j].product_id)}

RECURSIVE Total(_)
Total(J) ==
    IF J = {} THEN 0
    ELSE LET j == CHOOSE x \in J : TRUE
         IN  sales_df[j].quantity * sales_df[j].unit_price + Total(J \ {j})

RevenueFrame(period) == IF period = "daily" THEN daily_revenue_df ELSE yearly_revenue_df

KpiFrame(period) == IF period = "daily" THEN daily_kpis_df ELSE yearly_kpis_df

Ranking(period) == IF period = "daily" THEN ranking_daily ELSE ranking_yearly

RowsFor(df, s) == {j \in DOMAIN df : df[j].store_id = s}

\* store s has one row in both frames of the period, with revenue Total(m),
\* or, when m is empty, no row in either
RevenueIs(s, period, m) ==
    LET rows == RowsFor(RevenueFrame(period), s)
        kpis == RowsFor(KpiFrame(period), s)
    IN  IF m = {}
        THEN rows = {} /\ kpis = {}
        ELSE /\ Cardinality(rows) = 1 /\ Cardinality(kpis) = 1
             /\ \A j \in rows : RevenueFrame(period)[j].revenue = Total(m)
             /\ \A j \in kpis : KpiFrame(period)[j].revenue = Total(m)

C2_IndicatorsOverJoinedLines ==
    Aggregated =>
        \A period \in Periods : \A j \in DOMAIN KpiFrame(period) :
            LET r == KpiFrame(period)[j]
                m == JoinedLinesOf(r.store_id, period)
                codes == {sales_df[x].sales_code : x \in m}
            IN  /\ r.distinct_products = Cardinality({sales_df[x].product_id : x \in m})
                /\ r.avg_ticket.num * Cardinality(codes) = r.revenue * r.avg_ticket.den

\* C3: avg_ticket is the store's revenue divided by the number of distinct
\* sales_code values among its lines in the window, not by the number of
\* lines; one sale of 2 units at 10 gives revenue 20, 1 product, avg_ticket 20.
C3_AvgTicketPerDistinctSale ==
    Aggregated =>
        /\ \A period \in Periods : \A j \in DOMAIN KpiFrame(period) :
            LET r == KpiFrame(period)[j]
                codes == {sales_df[x].sales_code : x \in LinesOf(r.store_id, period)}
            IN  /\ codes # {}
                /\ r.avg_ticket.den > 0
                /\ r.avg_ticket.num * Cardinality(codes) = r.revenue * r.avg_ticket.den
        /\ (sales_df = << [sales_code |-> 1, date |-> today - 1, store_id |-> "S1",
                           product_id |-> "P1", quantity |-> 2, unit_price |-> 10] >>)
            => daily_kpis_df = << [store_id |-> "S1", revenue |-> 20,
                                   distinct_products |-> 1,
                                   avg_ticket |-> [num |-> 20, den |-> 1]] >>

\* a store with two lines of one sale in the daily window
C3_Witness ==
    /\ Aggregated
    /\ \E j \in DOMAIN daily_kpis_df :
        LET r == daily_kpis_df[j]
        IN  /\ Cardinality(JoinedLinesOf(r.store_id, "daily")) = 2
            /\ Cardinality({sales_df[x].sales_code : x \in LinesOf(r.store_id, "daily")}) = 1
            /\ r.avg_ticket = [num |-> r.revenue, den |-> 1]

\* the one arrangement of df by revenue descending that keeps rows of equal
\* revenue in their order in df
StableDesc(df) ==
    LET f == CHOOSE g \in Injections(Len(df)) :
                \A a, b \in 1..Len(df) :
                    a < b => \/ df[g[a]].revenue > df[g[b]].revenue
                             \/ df[g[a]].revenue = df[g[b]].revenue /\ g[a] < g[b]
    IN  [j \in DOMAIN df |->
            [store_id |-> df[f[j]].store_id, store_name |-> df[f[j]].store_name,
             revenue |-> df[f[j]].revenue]]

\* C4 as stated: the ranking is by revenue descending with rows of equal
\* revenue in their input order; best is its first row, worst its last.
C4_StableRanking ==
    \A period \in Periods : \A k \in DOMAIN Ranking(period) :
        LET r == Ranking(period)[k]
            s == StableDesc(MergeStores(RevenueFrame(period)))
        IN  /\ r.sorted_df = s
            /\ r.best_store_name = s[1].store_name
            /\ r.best_store_value = s[1].revenue
            /\ r.worst_store_name = s[Len(s)].store_name
            /\ r.worst_store_value = s[Len(s)].revenue

\* C5: the combined table has one row per store_id, for exactly the stores
\* with a row in both the daily and the yearly KPI frame, carrying those rows'
\* values; a store of one period only has no row.
C5_CombinedIsInnerJoin ==
    Aggregated =>
        \A s \in AllStoreIds :
            LET d == RowsFor(daily_kpis_df, s)
                y == RowsFor(yearly_kpis_df, s)
                a == RowsFor(all_kpis_df, s)
            IN  IF d # {} /\ y # {}
                THEN /\ Cardinality(a) = 1
                     /\ \A j \in a : \E dj \in d, yj \in y :
                          /\ all_kpis_df[j].revenue_daily = daily_kpis_df[dj].revenue
                          /\ all_kpis_df[j].distinct_products_daily
                                = daily_kpis_df[dj].distinct_products
                          /\ all_kpis_df[j].avg_ticket_daily = daily_kpis_df[dj].avg_ticket
                          /\ all_kpis_df[j].revenue_yearly = yearly_kpis_df[yj].revenue
                          /\ all_kpis_df[j].distinct_products_yearly
                                = yearly_kpis_df[yj].distinct_products
                          /\ all_kpis_df[j].avg_ticket_yearly = yearly_kpis_df[yj].avg_ticket
                ELSE a = {}

\* one store with sales in both periods, another in the year only
C5_Witness ==
    /\ Aggregated
    /\ all_kpis_df # <<>>
    /\ \E s \in AllStoreIds :
        RowsFor(yearly_kpis_df, s) # {} /\ RowsFor(daily_kpis_df, s) = {}

\* the effects of the current run
RunEffects == SelectSeq(effects, LAMBDA e : e.run = run)

IsStoreSend(e) == e.op = "send" /\ e.store_id # "BOARD"

IsBoardSend(e) == e.op = "send" /\ e.store_id = "BOARD"

StoreSends == SelectSeq(RunEffects, IsStoreSend)

\* the rows of emails.xlsx that stand for a store, in table order
StoreRecipients == SelectSeq(emails_df, LAMBDA r : r.store_id # "BOARD")

\* C6: with EMAIL_FROM absent the run aborts before anything is loaded or
\* aggregated: no KPI frame is computed, no file written, no email sent.
C6_NoWorkWithoutSender ==
    (pc # "idle" /\ EMAIL_FROM = None) =>
        /\ pc = "aborted" /\ err = "ValueError: EMAIL_FROM"
        /\ daily_revenue_df = <<>> /\ yearly_revenue_df = <<>>
        /\ daily_kpis_df = <<>> /\ yearly_kpis_df = <<>>
        /\ all_kpis_df = <<>> /\ emails_with_kpis_df = <<>>
        /\ ranking_daily = <<>> /\ ranking_yearly = <<>>
        /\ i = 0
        /\ RunEffects = <<>>
        /\ \A q \in DOMAIN fs : fs[q].run # run

\* a run without EMAIL_FROM that had sales to aggregate and stores to mail
C6_Witness ==
    /\ pc = "aborted" /\ EMAIL_FROM = None
    /\ Len(sales_df) = MaxLines
    /\ Len(StoreRecipients) >= 2

\* C7: the store rows are processed in table order, each at most once, a
\* store's file written before its email; what was done for the earlier
\* stores stays when the run aborts; the board's email comes after every
\* store's.
C7_StoreByStore ==
    Aggregated =>
        /\ Len(StoreSends) <= Len(StoreRecipients)
        /\ \A k \in DOMAIN StoreSends :
            /\ StoreSends[k].store_id = StoreRecipients[k].store_id
            /\ StoreSends[k].to = StoreRecipients[k].email
        /\ \A k \in DOMAIN RunEffects :
            IsStoreSend(RunEffects[k]) =>
                /\ k > 1
                /\ RunEffects[k - 1].op = "to_excel"
                /\ RunEffects[k - 1].kind = "store"
                /\ RunEffects[k - 1].store_id = RunEffects[k].store_id
                /\ RunEffects[k].attachments = <<RunEffects[k - 1].path>>
        /\ Len(StoreSends)
             = Cardinality({k \in 1..(i - 1) : k \in DOMAIN emails_df
                                               /\ emails_df[k].store_id # "BOARD"})
        /\ \A k \in DOMAIN RunEffects :
            RunEffects[k].op = "to_excel" =>
                /\ RunEffects[k].path \in DOMAIN fs
                /\ fs[RunEffects[k].path].run = run
        /\ \A k \in DOMAIN RunEffects :
            IsBoardSend(RunEffects[k]) =>
                /\ k = Len(RunEffects)
                /\ Len(StoreSends) = Len(StoreRecipients)

\* a run that aborted at a store after it had mailed an earlier one
C7_Witness ==
    /\ pc = "aborted"
    /\ i \in DOMAIN emails_with_kpis_df
    /\ Len(StoreSends) >= 1
    /\ Len(StoreSends) < Len(StoreRecipients)

\* C8 as stated: a store of the recipients table without a row in the
\* combined KPI table gets no email and no zero-value report, and the run goes
\* on to the next row instead of aborting.
C8_StoreWithoutKpisIsSkipped ==
    Aggregated =>
        \A k \in DOMAIN emails_with_kpis_df :
            LET row == emails_with_kpis_df[k]
            IN  (row.store_id # "BOARD" /\ RowsFor(all_kpis_df, row.store_id) = {}) =>
                    /\ \A e \in DOMAIN RunEffects :
                        RunEffects[e].store_id # row.store_id
                    /\ ~(pc = "aborted" /\ i = k)

\* no store of the stores table has a product-joined line in the window
EmptyWindow(period) ==
    \A s \in AllStoreIds : ~(KnownStore(s) /\ JoinedLinesOf(s, period) # {})

Writes == SelectSeq(effects, LAMBDA e : e.op = "to_excel")

\* the last run that wrote a file of this kind for this store or year
LatestRun(kind, store_id, year) ==
    LET runs == {Writes[b].run : b \in {x \in DOMAIN Writes :
                    /\ Writes[x].kind = kind
                    /\ Writes[x].store_id = store_id
                    /\ Writes[x].day \div DaysPerYear = year}}
    IN  CHOOSE r \in runs : \A q \in runs : q <= r

\* C10: the daily ranking file of a day is never overwritten by a run
\* reporting another day; the yearly ranking file of a year and the sales file
\* of a store keep one name, so each holds what the latest run that wrote it
\* left.
C10_FileNames ==
    \A a \in DOMAIN Writes :
        LET e == Writes[a]
        IN  /\ e.path \in DOMAIN fs
            /\ e.kind = "daily" =>
                /\ fs[e.path].day = e.day
                /\ \A b \in DOMAIN Writes :
                     Writes[b].day # e.day => Writes[b].path # e.path
            /\ e.kind = "yearly" =>
                /\ \A b \in DOMAIN Writes :
                     (Writes[b].kind = "yearly"
                        /\ Writes[b].day \div DaysPerYear = e.day \div DaysPerYear)
                     => Writes[b].path = e.path
                /\ fs[e.path].run = LatestRun("yearly", "BOARD", e.day \div DaysPerYear)
            /\ e.kind = "store" =>
                /\ \A b \in DOMAIN Writes :
                     (Writes[b].kind = "store" /\ Writes[b].store_id = e.store_id)
                     => Writes[b].path = e.path
                /\ fs[e.path].run
                     = CHOOSE r \in {Writes[b].run : b \in {x \in DOMAIN Writes :
                                        Writes[x].path = e.path}} :
                         \A b \in DOMAIN Writes :
                             Writes[b].path = e.path => Writes[b].run <= r

\* two completed runs reporting two days of one year
C10_Witness ==
    /\ pc = "done"
    /\ \E a, b \in DOMAIN Writes :
        /\ Writes[a].kind = "daily" /\ Writes[b].kind = "daily"
        /\ Writes[a].day # Writes[b].day
        /\ Writes[a].day \div DaysPerYear = Writes[b].day \div DaysPerYear
        /\ Writes[a].run < Writes[b].run
        /\ fs[Writes[a].path].run = Writes[a].run
        /\ fs[YearlyExportPath(today)].run = Writes[b].run

====
